---------------------------- MODULE Spec2Model ----------------------------
(***************************************************************************)
(* Model of src/scrape.py: scrape_product_details (one product page to a   *)
(* list of per-colour records) and scrape_main_page (walk the category     *)
(* page, collect the records, write the timestamped report).               *)
(*                                                                         *)
(* Python str values are sequences of one-character strings, so that       *)
(* strip / replace / split / join / "in" are computed as Python computes   *)
(* them.  Python's None is the value None below, which is no str.          *)
(***************************************************************************)
EXTENDS Integers, Sequences, FiniteSets, TLC

VARIABLES
    pc,                \* position of the process: see scrape_main_page
    clock,             \* wall clock read by datetime.now(): [year, minute, second]
    ticks,             \* seconds elapsed since the process started
    run,               \* number of the current call of scrape_main_page
    a_tags,            \* soup.find_all('a', href=True) of the category page
    idx,               \* position of the for loop over a_tags (next tag)
    all_product_data,  \* the list all_product_data of the current run
    requests,          \* GET requests issued by the current run: [url, ok]
    call,              \* last call of scrape_product_details: page and result
    files,             \* files in the output directory: name -> content
    writes             \* df.to_excel calls of the process: [run, at, name]

vars == <<pc, clock, ticks, run, a_tags, idx, all_product_data, requests,
          call, files, writes>>

\* ------------------------------------------------------------- bounds
MaxLinks   == 3   \* <a> tags on a category page
MaxOptions == 3   \* <option> elements in a size selector
MaxTicks   == 2   \* seconds the clock advances during the process
MaxRuns    == 2   \* calls of scrape_main_page in one process
MaxRerunLinks == 1 \* <a> tags on a category page when the walk is repeated

\* ------------------------------------------------------------- Python str
None == <<"None">>          \* Python's None: no one-character sequence equals it

Whitespace == {" ", "\n", "\t"}

RECURSIVE LStrip(_)
LStrip(s) ==
    IF s = <<>> THEN <<>>
    ELSE IF Head(s) \in Whitespace THEN LStrip(Tail(s)) ELSE s

RECURSIVE RStrip(_)
RStrip(s) ==
    IF s = <<>> THEN <<>>
    ELSE IF s[Len(s)] \in Whitespace THEN RStrip(SubSeq(s, 1, Len(s) - 1)) ELSE s

\* str.strip()
Strip(s) == RStrip(LStrip(s))

\* t occurs in s starting at position i
OccursAt(s, t, i) ==
    /\ i >= 1
    /\ i + Len(t) - 1 <= Len(s)
    /\ \A k \in 1..Len(t) : s[i + k - 1] = t[k]

\* t in s
Contains(s, t) == \E i \in 1..(Len(s) + 1) : OccursAt(s, t, i)

\* s.replace(t, ""): every non-overlapping occurrence, left to right
RECURSIVE Remove(_, _)
Remove(s, t) ==
    IF t = <<>> \/ s = <<>> THEN s
    ELSE IF OccursAt(s, t, 1) THEN Remove(SubSeq(s, Len(t) + 1, Len(s)), t)
    ELSE <<Head(s)>> \o Remove(Tail(s), t)

\* s.split(sep, 1)[-1] for a one-character sep: the part after the first sep
RECURSIVE AfterFirst(_, _)
AfterFirst(s, sep) ==
    IF s = <<>> THEN <<>>
    ELSE IF Head(s) = sep THEN Tail(s) ELSE AfterFirst(Tail(s), sep)

SplitLast(s, sep) == IF Contains(s, <<sep>>) THEN AfterFirst(s, sep) ELSE s

\* ', '.join(list)
RECURSIVE Join(_)
Join(list) ==
    IF list = <<>> THEN <<>>
    ELSE IF Len(list) = 1 THEN list[1]
    ELSE list[1] \o <<",", " ">> \o Join(Tail(list))

Digit == {"0", "1", "2", "3", "4", "5", "6", "7", "8", "9"}
Upper == {"A", "B", "C", "D", "E", "F", "G", "H", "I", "J", "K", "L", "M",
          "N", "O", "P", "Q", "R", "S", "T", "U", "V", "W", "X", "Y", "Z"}
Lower == {"a", "b", "c", "d", "e", "f", "g", "h", "i", "j", "k", "l", "m",
          "n", "o", "p", "q", "r", "s", "t", "u", "v", "w", "x", "y", "z"}
WordChar == Digit \cup Upper \cup Lower \cup {"_"}     \* regex \w

DigitValue(c) ==
    CASE c = "0" -> 0 [] c = "1" -> 1 [] c = "2" -> 2 [] c = "3" -> 3
      [] c = "4" -> 4 [] c = "5" -> 5 [] c = "6" -> 6 [] c = "7" -> 7
      [] c = "8" -> 8 [] c = "9" -> 9


RECURSIVE DigitsValue(_)
DigitsValue(s) ==
    IF s = <<>> THEN 0
    ELSE 10 * DigitsValue(SubSeq(s, 1, Len(s) - 1)) + DigitValue(s[Len(s)])

RECURSIVE Pow10(_)
Pow10(k) == IF k = 0 THEN 1 ELSE 10 * Pow10(k - 1)

\* float(s) for plain decimal text: optional surrounding whitespace, digits
\* with at most one "." and at least one digit.  Anything else is a
\* ValueError (ok = FALSE).  The value is the exact fraction n / d.
ParseFloat(s) ==
    LET t    == Strip(s)
        dots == {i \in 1..Len(t) : t[i] = "."}
        int  == IF dots = {} THEN t
                ELSE SubSeq(t, 1, (CHOOSE i \in dots : TRUE) - 1)
        frac == IF dots = {} THEN <<>>
                ELSE SubSeq(t, (CHOOSE i \in dots : TRUE) + 1, Len(t))
        good == /\ \A i \in 1..Len(t) : t[i] \in Digit \cup {"."}
                /\ Cardinality(dots) <= 1
                /\ Len(int) + Len(frac) >= 1
    IN  IF good
        THEN [ok |-> TRUE, n |-> DigitsValue(int \o frac), d |-> Pow10(Len(frac))]
        ELSE [ok |-> FALSE, n |-> 0, d |-> 1]

RECURSIVE IntToStr(_)
IntToStr(n) ==
    LET c == SubSeq(<<"0", "1", "2", "3", "4", "5", "6", "7", "8", "9">>,
                    (n % 10) + 1, (n % 10) + 1)
    IN  IF n < 10 THEN c ELSE IntToStr(n \div 10) \o c

\* round(x, 2) of the fraction num / den (den > 0), in hundredths,
\* ties to the even neighbour
RoundHundredths(num, den) ==
    LET q == (100 * num) \div den
        r == (100 * num) - q * den
    IN  IF 2 * r > den THEN q + 1
        ELSE IF 2 * r = den THEN q + (q % 2)
        ELSE q

\* str(x) of a float given in hundredths: "50.0", "33.33", "-12.5"
FloatStr(h) ==
    LET a  == IF h < 0 THEN 0 - h ELSE h
        fp == a % 100
    IN  (IF h < 0 THEN <<"-">> ELSE <<>>)
        \o IntToStr(a \div 100) \o <<".">>
        \o (IF fp % 10 = 0 THEN IntToStr(fp \div 10)
            ELSE IntToStr(fp \div 10) \o IntToStr(fp % 10))

\* ------------------------------------------------------------- literals
AED        == <<"A", "E", "D", ".", " ">>
OutOfStock == <<"(", "O", "u", "t", " ", "o", "f", " ", "s", "t", "o", "c", "k", ")">>
Slash      == "/"

\* ------------------------------------------------ scrape_product_details
\* A product page, as the soup.find / find_all calls see it:
\*   price_div, oldprice_div : text of the div, or None when find gives None
\*   color_labels            : per 'main-color' label the text of its div,
\*                             or None when label.find('div') gives None
\*   select                  : [present, options] of the first <select>
\*   description             : [div, ul, li] of the product-page--description
\*   json_ld                 : the first application/ld+json script

\* lines 25-26
Price(page) ==
    IF page.price_div # None THEN Strip(page.price_div) ELSE None

\* line 29 and the true branch of line 30
OldPrice(page) == Strip(page.oldprice_div)

OldPriceNum(page) == ParseFloat(Remove(OldPrice(page), AED))
PriceNum(page)    == ParseFloat(Remove(Price(page), AED))

\* lines 30-36: the exception the price block raises, "" when it raises none
PriceException(page) ==
    IF page.oldprice_div = None THEN "NameError"            \* line 30: none
    ELSE IF ~OldPriceNum(page).ok THEN "ValueError"         \* line 33
    ELSE IF Price(page) = None THEN "AttributeError"        \* line 34
    ELSE IF ~PriceNum(page).ok THEN "ValueError"            \* line 34
    ELSE IF OldPriceNum(page).n = 0 THEN "ZeroDivisionError" \* line 35
    ELSE ""

\* lines 33-36: disc = str(round((1 - price_num/oldprice_num) * 100, 2))
Discount(page) ==
    LET o == OldPriceNum(page)
        p == PriceNum(page)
        d == IF o.d > p.d THEN o.d ELSE p.d      \* common denominator
        O == o.n * (d \div o.d)
        P == p.n * (d \div p.d)
    IN  FloatStr(RoundHundredths(100 * (O - P), O))

\* line 42: item_colors
ColorException(page) ==
    IF \E k \in 1..Len(page.color_labels) : page.color_labels[k] = None
    THEN "AttributeError" ELSE ""

ItemColors(page) ==
    [k \in 1..Len(page.color_labels) |-> Strip(page.color_labels[k])]

\* lines 45-46: size_options
SizeOptions(page) ==
    IF page.select.present THEN page.select.options ELSE <<>>

\* lines 55-57: the label left of an option that names the colour
SizeLabel(size, item_color) ==
    LET s1 == Strip(Remove(size, item_color))
    IN  IF Contains(s1, <<Slash>>) THEN Strip(SplitLast(s1, Slash)) ELSE s1

\* lines 59-63 with both appends executed: a slip of the else branch
ClassifyBoth(lists, size) ==
    IF Contains(size, OutOfStock)
    THEN [available_sizes    |-> Append(lists.available_sizes, Strip(Remove(size, OutOfStock))),
          out_of_stock_sizes |-> Append(lists.out_of_stock_sizes, Strip(Remove(size, OutOfStock)))]
    ELSE [lists EXCEPT !.available_sizes = Append(@, size)]

\* lines 59-63
Classify(lists, size) ==
    IF Contains(size, OutOfStock)
    THEN [lists EXCEPT !.out_of_stock_sizes =
                           Append(@, Strip(Remove(size, OutOfStock)))]
    ELSE [lists EXCEPT !.available_sizes = Append(@, size)]

\* lines 52-63 with the lists built by prepending: page order reversed
RECURSIVE SizeLoopReversed(_, _, _)
SizeLoopReversed(item_color, size_options, lists) ==
    IF size_options = <<>> THEN lists
    ELSE LET size == Strip(size_options[Len(size_options)])
             rest == SubSeq(size_options, 1, Len(size_options) - 1)
         IN  IF Contains(size, item_color)
             THEN SizeLoopReversed(item_color, rest,
                                   Classify(lists, SizeLabel(size, item_color)))
             ELSE SizeLoopReversed(item_color, rest, lists)

\* lines 52-63: the loop over size_options for one colour
RECURSIVE SizeLoop(_, _, _)
SizeLoop(item_color, size_options, lists) ==
    IF size_options = <<>> THEN lists
    ELSE LET size == Strip(Head(size_options))
         IN  IF Contains(size, item_color)
             THEN SizeLoop(item_color, Tail(size_options),
                           Classify(lists, SizeLabel(size, item_color)))
             ELSE SizeLoop(item_color, Tail(size_options), lists)

\* lines 49-50 and 52-63, per colour of lines 48
SizeLists(page) ==
    [k \in 1..Len(page.color_labels) |->
        SizeLoop(ItemColors(page)[k], SizeOptions(page),
                 [available_sizes |-> <<>>, out_of_stock_sizes |-> <<>>])]

\* lines 66-76: the entries as appended, Item Code still the placeholder
NewEntries(url, item_name, page) ==
    [k \in 1..Len(page.color_labels) |->
        [ProductURL      |-> url,
         ItemName        |-> item_name,
         ItemCode        |-> None,
         ItemColor       |-> ItemColors(page)[k],
         Price           |-> Price(page),
         OriginalPrice   |-> OldPrice(page),
         Discount        |-> Discount(page),
         AvailableSizes  |-> Join(SizeLists(page)[k].available_sizes),
         OutOfStockSizes |-> Join(SizeLists(page)[k].out_of_stock_sizes)]]

\* the length of the longest run of [A-Z0-9] in s that starts at position j
RECURSIVE TokenLen(_, _)
TokenLen(s, j) ==
    IF j <= Len(s) /\ s[j] \in Upper \cup Digit THEN 1 + TokenLen(s, j + 1) ELSE 0

\* line 84: r'\bI\d{6}_[A-Z0-9]+_[A-Z0-9]+\b' matches in s at position i.
\* The first token ends at the "_" and the second where no word character
\* follows, so each token is the whole run of [A-Z0-9] at its place.
CodeMatchAt(s, i) ==
    LET n == Len(s)
        a == TokenLen(s, i + 8)
        b == TokenLen(s, i + 9 + a)
        e == i + 8 + a + b          \* position of the last matched character
    IN  /\ i + 7 <= n
        /\ s[i] = "I"
        /\ (i = 1 \/ s[i - 1] \notin WordChar)
        /\ \A k \in 1..6 : s[i + k] \in Digit
        /\ s[i + 7] = "_"
        /\ a >= 1
        /\ i + 8 + a <= n
        /\ s[i + 8 + a] = "_"
        /\ b >= 1
        /\ (e = n \/ s[e + 1] \notin WordChar)

\* re.search
CodeSearch(s) == \E i \in 1..Len(s) : CodeMatchAt(s, i)

\* lines 79-85: the item code of the description list, None when not found
ItemCodeFromList(page) ==
    LET d    == page.description
        hits == {k \in 1..Len(d.li) : CodeSearch(d.li[k])}
    IN  IF d.div /\ d.ul /\ hits # {}
        THEN Strip(d.li[CHOOSE k \in hits : \A j \in hits : k <= j])
        ELSE None

\* lines 93-97: the sku of the first item of @type Product, None otherwise
SkuOfFirstProduct(items) ==
    LET hits == {k \in 1..Len(items) : items[k].type = "Product"}
    IN  IF hits = {} THEN None
        ELSE items[CHOOSE k \in hits : \A j \in hits : k <= j].sku

\* line 92: json_ld_script.string is None and .strip() is called on it
CodeException(page) ==
    IF ItemCodeFromList(page) = None /\ page.json_ld.script = "nostring"
    THEN "AttributeError" ELSE ""

\* lines 79-99: item_code
ItemCode(page) ==
    IF ItemCodeFromList(page) # None THEN ItemCodeFromList(page)
    ELSE IF page.json_ld.script = "array" THEN SkuOfFirstProduct(page.json_ld.items)
    ELSE None        \* no script, a JSON object, or JSONDecodeError (caught)

\* lines 102-103 updating only the first entry: a slip of the loop
BackFillFirst(product_entries, item_code) ==
    [k \in 1..Len(product_entries) |->
        IF k = 1 THEN [product_entries[k] EXCEPT !.ItemCode = item_code]
        ELSE product_entries[k]]

\* lines 102-103: every entry gets the item code
BackFill(product_entries, item_code) ==
    [k \in 1..Len(product_entries) |->
        [product_entries[k] EXCEPT !.ItemCode = item_code]]

\* lines 24-103: the first exception the parse raises, "" when none
ParseException(page) ==
    IF PriceException(page) # "" THEN PriceException(page)
    ELSE IF ColorException(page) # "" THEN ColorException(page)
    ELSE CodeException(page)

\* lines 9-108: resp is the outcome of requests.get + raise_for_status,
\* [ok, page].  The result is [raised, entries]: the exception that leaves
\* the function ("" when it returns) and the list it returns.
ScrapeProductDetails(url, item_name, resp) ==
    IF ~resp.ok
    THEN [raised |-> "", entries |-> <<>>]          \* lines 105-108: caught
    ELSE IF ParseException(resp.page) # ""
    THEN [raised |-> ParseException(resp.page), entries |-> <<>>]
    ELSE [raised  |-> "",
          entries |-> BackFill(NewEntries(url, item_name, resp.page),
                               ItemCode(resp.page))]

\* ------------------------------------------------------------- inputs
Black == <<"B", "l", "a", "c", "k">>
Red   == <<"R", "e", "d">>

Aed100   == <<"A", "E", "D", ".", " ", "1", "0", "0", ".", "0", "0">>
Aed150   == <<" ", "A", "E", "D", ".", " ", "1", "5", "0", ".", "0", "0", "\n">>
Aed200   == <<"A", "E", "D", ".", " ", "2", "0", "0", ".", "0", "0">>
Aed0     == <<"A", "E", "D", ".", " ", "0", ".", "0", "0">>
AedComma == <<"A", "E", "D", ".", " ", "1", ",", "2", "0", "0", ".", "0", "0">>

PriceTexts    == {None, Aed100, Aed150}
OldPriceTexts == {None, Aed200, Aed0, AedComma}

ColorLabelLists == {<<>>, <<Black>>, <<Black, Red>>}

BlackM    == <<"B", "l", "a", "c", "k", " ", "/", " ", "M">>
BlackMOut == <<"B", "l", "a", "c", "k", " ", "/", " ", "M", " ", "(", "O", "u", "t", " ", "o", "f", " ", "s", "t", "o", "c", "k", ")">>
RedLOut   == <<"\n", "R", "e", "d", " ", "/", " ", "L", " ", "(", "O", "u", "t", " ", "o", "f", " ", "s", "t", "o", "c", "k", ")", "\n">>
BlackL    == <<"B", "l", "a", "c", "k", " ", "/", " ", "L">>
OneSize   == <<"O", "n", "e", " ", "S", "i", "z", "e">>

OptionTexts == {BlackM, BlackL, BlackMOut, RedLOut, OneSize}

RECURSIVE SeqsUpTo(_, _)
SeqsUpTo(S, n) ==
    IF n = 0 THEN {<<>>}
    ELSE SeqsUpTo(S, n - 1)
         \cup {Append(q, x) : q \in {r \in SeqsUpTo(S, n - 1) : Len(r) = n - 1}, x \in S}

NoSelect == [present |-> FALSE, options |-> <<>>]
Selects  == {NoSelect}
            \cup {[present |-> TRUE, options |-> o] : o \in SeqsUpTo(OptionTexts, MaxOptions)}

NoDescription == [div |-> FALSE, ul |-> FALSE, li |-> <<>>]
CodedList     == [div |-> TRUE, ul |-> TRUE,
                  li |-> <<<<"1", "0", "0", "%", " ", "C", "o", "t", "t", "o", "n">>,
                           <<" ", "I", "0", "3", "1", "4", "6", "8", "_", "8", "9", "_", "X", "X", " ">>>>]
Descriptions ==
    {NoDescription,
     [div |-> TRUE, ul |-> FALSE, li |-> <<>>],
     [div |-> TRUE, ul |-> TRUE, li |-> <<<<"1", "0", "0", "%", " ", "C", "o", "t", "t", "o", "n">>, <<"S", "K", "U", " ", "I", "0", "3", "1", "4", "6", "8">>>>],
     CodedList}

NoScript == [script |-> "none", items |-> <<>>]
SkuArray == [script |-> "array",
             items  |-> <<[type |-> "BreadcrumbList", sku |-> None],
                          [type |-> "Product", sku |-> <<"I", "0", "3", "3", "1", "1", "2", "_", "0", "1", "_", "0", "2">>]>>]
JsonLds ==
    {NoScript,
     [script |-> "nostring",  items |-> <<>>],
     [script |-> "malformed", items |-> <<>>],
     [script |-> "object",    items |-> <<>>],
     [script |-> "array",     items |-> <<[type |-> "Product", sku |-> None]>>],
     SkuArray}

\* pages that differ in what is missing: every combination of the price
\* elements, the colour labels, the selector, the description and the script
GapPages ==
    [price_div    : PriceTexts,
     oldprice_div : OldPriceTexts,
     color_labels : ColorLabelLists \cup {<<Black, None>>},
     select       : {NoSelect,
                     [present |-> TRUE, options |-> <<BlackM>>]},
     description  : Descriptions,
     json_ld      : JsonLds]

\* priced pages that differ in the colours and the options of the selector
SizePages ==
    [price_div    : {Aed100},
     oldprice_div : {Aed200},
     color_labels : ColorLabelLists,
     select       : Selects,
     description  : {NoDescription, CodedList},
     json_ld      : {NoScript}]

Pages == GapPages \cup SizePages

NoPage ==
    [price_div |-> None, oldprice_div |-> None, color_labels |-> <<>>,
     select |-> NoSelect, description |-> NoDescription, json_ld |-> NoScript]

\* outcome of requests.get + raise_for_status: the page, or a RequestException
Failed       == [ok |-> FALSE, page |-> NoPage]
Fetched(pg)  == [ok |-> TRUE, page |-> pg]

NoCall ==
    [done |-> FALSE, url |-> <<>>, item_name |-> "", resp |-> Failed,
     raised |-> "", entries |-> <<>>, size_lists |-> <<>>]

\* the record of one call of scrape_product_details
CallOf(url, item_name, resp) ==
    LET res == ScrapeProductDetails(url, item_name, resp)
    IN  [done       |-> TRUE,
         url        |-> url,
         item_name  |-> item_name,
         resp       |-> resp,
         raised     |-> res.raised,
         entries    |-> res.entries,
         size_lists |-> IF resp.ok /\ res.raised = ""
                        THEN SizeLists(resp.page) ELSE <<>>]

\* ------------------------------------------------------ scrape_main_page
BaseUrl  == <<"https://americanrag.ae">>                          \* line 116
MainUrl  == BaseUrl \o <<"collections", "carhartt-wip">>          \* line 163
Prefix   == <<"collections", "carhartt-wip", "products">>         \* line 126
OutputDir == "Output-Carhartt WIP"                                \* line 150

\* href.startswith(prefix), on paths split at "/"
StartsWith(href, prefix) ==
    /\ Len(href) >= Len(prefix)
    /\ SubSeq(href, 1, Len(prefix)) = prefix

\* line 128: a_tag.get('aria-label', 'Unknown Item Name')
ItemName(a_tag) ==
    IF a_tag.aria_label # "" THEN a_tag.aria_label ELSE "Unknown Item Name"

\* line 127
ProductUrl(a_tag) == BaseUrl \o a_tag.href

Slugs == <<"p1", "p2", "p3", "p4", "p5", "p6">>

\* the <a href> tags a category page may hold at position k
TagsAt(k) ==
    {[href |-> Prefix \o <<Slugs[k]>>, aria_label |-> "Jacket"],
     [href |-> Prefix \o <<Slugs[k]>>, aria_label |-> ""],
     [href |-> <<"collections", "sale", "products", Slugs[k]>>, aria_label |-> "Shirt"]}

RECURSIVE TagListsOfLen(_)
TagListsOfLen(n) ==
    IF n = 0 THEN {<<>>}
    ELSE {Append(q, t) : q \in TagListsOfLen(n - 1), t \in TagsAt(n)}

CategoryPages(maxLinks) == UNION {TagListsOfLen(n) : n \in 0..maxLinks}

\* columns of pd.DataFrame(list of dicts): the keys of the dicts, in order;
\* an empty list gives a frame without columns
RecordColumns ==
    <<"Product URL", "Item Name", "Item Code", "Item Color", "Price",
      "Original Price", "Discount", "Available Sizes", "Out of Stock Sizes">>

Columns(data) == IF data = <<>> THEN <<>> ELSE RecordColumns

\* ---- datetime.now() and strftime('%y%m%d_%H%M%S')
DaysIn(year, month) ==
    IF month = 2
    THEN (IF year % 4 = 0 /\ (year % 100 # 0 \/ year % 400 = 0) THEN 29 ELSE 28)
    ELSE IF month \in {4, 6, 9, 11} THEN 30 ELSE 31

NextSecond(c) ==
    IF c.second < 59 THEN [c EXCEPT !.second = @ + 1]
    ELSE IF c.minute < 59 THEN [c EXCEPT !.second = 0, !.minute = @ + 1]
    ELSE IF c.hour < 23 THEN [c EXCEPT !.second = 0, !.minute = 0, !.hour = @ + 1]
    ELSE IF c.day < DaysIn(c.year, c.month)
    THEN [c EXCEPT !.second = 0, !.minute = 0, !.hour = 0, !.day = @ + 1]
    ELSE IF c.month < 12
    THEN [c EXCEPT !.second = 0, !.minute = 0, !.hour = 0, !.day = 1, !.month = @ + 1]
    ELSE [c EXCEPT !.second = 0, !.minute = 0, !.hour = 0, !.day = 1, !.month = 1,
                   !.year = @ + 1]

TwoDigits(n) == IntToStr(n \div 10) \o IntToStr(n % 10)

\* line 154 with the seconds left out of the format: '%y%m%d_%H%M'
TimestampToMinute(c) ==
    TwoDigits(c.year % 100) \o TwoDigits(c.month) \o TwoDigits(c.day) \o <<"_">>
    \o TwoDigits(c.hour) \o TwoDigits(c.minute)

\* line 154
Timestamp(c) ==
    TwoDigits(c.year % 100) \o TwoDigits(c.month) \o TwoDigits(c.day) \o <<"_">>
    \o TwoDigits(c.hour) \o TwoDigits(c.minute) \o TwoDigits(c.second)

\* line 155
OutputFile(c) ==
    <<OutputDir, "/">> \o Timestamp(c) \o <<"_CA04830_Carhartt_WIP_stock.xlsx">>

\* line 159: to_excel creates the file or replaces the file of that name.
\* A file is its name, its header row and the number of its data rows.
ToExcel(fs, name, data) ==
    {f \in fs : f.name # name}
    \cup {[name |-> name, columns |-> Columns(data), rows |-> Len(data)]}

StartClock ==
    [year |-> 2026, month |-> 11, day |-> 4, hour |-> 23, minute |-> 59, second |-> 59]

\* ------------------------------------------------------------- actions
\* lines 115-121 without the except clause of lines 146-147: the
\* RequestException of the category page leaves scrape_main_page
CallFetchFailsUncaught(maxRuns) ==
    /\ pc \in {"idle", "done"}
    /\ run < maxRuns
    /\ run' = run + 1
    /\ all_product_data' = <<>>
    /\ a_tags' = <<>>
    /\ idx' = 1
    /\ requests' = <<[url |-> MainUrl, ok |-> FALSE]>>
    /\ call' = NoCall
    /\ pc' = "raised"
    /\ UNCHANGED <<clock, ticks, files, writes>>

\* lines 115-121, 146-147: the call starts and the category page cannot be
\* fetched; the RequestException is caught and the function goes on to line 149
CallFetchFails(maxRuns) ==
    /\ pc \in {"idle", "done"}
    /\ run < maxRuns
    /\ run' = run + 1
    /\ all_product_data' = <<>>
    /\ a_tags' = <<>>
    /\ idx' = 1
    /\ requests' = <<[url |-> MainUrl, ok |-> FALSE]>>
    /\ call' = NoCall
    /\ pc' = "export"
    /\ UNCHANGED <<clock, ticks, files, writes>>

\* lines 115-124: the call starts and the category page is fetched and parsed
CallFetches(maxRuns, categoryPages) ==
    /\ pc \in {"idle", "done"}
    /\ run < maxRuns
    /\ run' = run + 1
    /\ all_product_data' = <<>>
    /\ \E tags \in categoryPages : a_tags' = tags
    /\ idx' = 1
    /\ requests' = <<[url |-> MainUrl, ok |-> TRUE]>>
    /\ call' = NoCall
    /\ pc' = "loop"
    /\ UNCHANGED <<clock, ticks, files, writes>>

\* lines 124-126: an <a> whose href does not start with the prefix
SkipTag ==
    /\ pc = "loop"
    /\ idx <= Len(a_tags)
    /\ ~StartsWith(a_tags[idx].href, Prefix)
    /\ idx' = idx + 1
    /\ UNCHANGED <<pc, clock, ticks, run, a_tags, all_product_data, requests,
                   call, files, writes>>

\* lines 124-144: a product link; the page is requested and parsed.  An
\* exception that leaves scrape_product_details is no RequestException, so
\* line 146 does not catch it and it leaves scrape_main_page.
ScrapeTag(responses) ==
    /\ pc = "loop"
    /\ idx <= Len(a_tags)
    /\ StartsWith(a_tags[idx].href, Prefix)
    /\ \E resp \in responses :
          LET c == CallOf(ProductUrl(a_tags[idx]), ItemName(a_tags[idx]), resp)
          IN  /\ call' = c
              /\ requests' = Append(requests, [url |-> c.url, ok |-> resp.ok])
              /\ IF c.raised # ""
                 THEN /\ pc' = "raised"
                      /\ UNCHANGED <<idx, all_product_data>>
                 ELSE /\ pc' = "loop"
                      /\ idx' = idx + 1
                      /\ all_product_data' = all_product_data \o c.entries
    /\ UNCHANGED <<clock, ticks, run, a_tags, files, writes>>

\* lines 149-159: after the loop, or after the caught RequestException
Export ==
    /\ \/ pc = "export"
       \/ pc = "loop" /\ idx > Len(a_tags)
    /\ files' = ToExcel(files, OutputFile(clock), all_product_data)
    /\ writes' = Append(writes, [run |-> run, at |-> clock, name |-> OutputFile(clock)])
    /\ pc' = "done"
    /\ UNCHANGED <<clock, ticks, run, a_tags, idx, all_product_data, requests, call>>

\* the wall clock advances by one second while the process is alive
Tick ==
    /\ pc # "raised"
    /\ ticks < MaxTicks
    /\ ticks' = ticks + 1
    /\ clock' = NextSecond(clock)
    /\ UNCHANGED <<pc, run, a_tags, idx, all_product_data, requests, call,
                   files, writes>>

\* one call of scrape_product_details on its own
Extract ==
    /\ pc = "call"
    /\ ~call.done
    /\ call' = CallOf(call.url, call.item_name, call.resp)
    /\ pc' = "returned"
    /\ UNCHANGED <<clock, ticks, run, a_tags, idx, all_product_data, requests,
                   files, writes>>

\* ------------------------------------------------------- specifications
\* the pages served to the walk: a full page, and pages with one gap each
FullPage ==
    [price_div    |-> Aed100,
     oldprice_div |-> Aed200,
     color_labels |-> <<Black, Red>>,
     select       |-> [present |-> TRUE, options |-> <<BlackM>>],
     description  |-> CodedList,
     json_ld      |-> NoScript]

WalkPages ==
    {FullPage,
     [FullPage EXCEPT !.color_labels = <<Black>>, !.select = NoSelect],
     [FullPage EXCEPT !.color_labels = <<>>],
     [FullPage EXCEPT !.oldprice_div = None],
     [FullPage EXCEPT !.price_div = None]}

WalkResponses == {Failed} \cup {Fetched(pg) : pg \in WalkPages}

InitCommon ==
    /\ clock = StartClock
    /\ ticks = 0
    /\ run = 0
    /\ a_tags = <<>>
    /\ idx = 1
    /\ all_product_data = <<>>
    /\ requests = <<>>
    /\ files = {}
    /\ writes = <<>>

Init ==
    /\ InitCommon
    /\ pc = "idle"
    /\ call = NoCall

\* the program as run: one call of scrape_main_page (line 164)
Next ==
    \/ CallFetchFails(1)
    \/ CallFetches(1, CategoryPages(MaxLinks))
    \/ SkipTag
    \/ ScrapeTag(WalkResponses)
    \/ Export
    \/ Tick

Spec == Init /\ [][Next]_vars

\* scrape_main_page called again by the same process, on short category pages
RerunResponses == {Failed, Fetched(FullPage)}

NextRerun ==
    \/ CallFetchFails(MaxRuns)
    \/ CallFetches(MaxRuns, CategoryPages(MaxRerunLinks))
    \/ SkipTag
    \/ ScrapeTag(RerunResponses)
    \/ Export
    \/ Tick

SpecRerun == Init /\ [][NextRerun]_vars

\* scrape_product_details applied to every response
InitExtract ==
    /\ InitCommon
    /\ pc = "call"
    /\ \E resp \in {Failed} \cup {Fetched(pg) : pg \in Pages},
          name \in {"Jacket", "Unknown Item Name"} :
          call = [NoCall EXCEPT !.url = BaseUrl \o Prefix \o <<Slugs[1]>>,
                                !.item_name = name, !.resp = resp]

NextExtract == Extract

SpecExtract == InitExtract /\ [][NextExtract]_vars

\* ------------------------------------------------------------- claims
\* what the walk of the current run has done
MatchingTags  == {k \in 1..Len(a_tags) : StartsWith(a_tags[k].href, Prefix)}
Requested(u)  == \E r \in 1..Len(requests) : requests[r].url = u
FetchFailed(u) == \E r \in 1..Len(requests) : requests[r].url = u /\ ~requests[r].ok
RecordsOf(u)  == {k \in 1..Len(all_product_data) : all_product_data[k].ProductURL = u}
RunEnded      == pc \in {"done", "raised"}
CategoryFailed == requests # <<>> /\ ~requests[1].ok
FilesOfRun    == {f \in files : \E w \in 1..Len(writes) :
                                   writes[w].run = run /\ writes[w].name = f.name}

\* what the last call of scrape_product_details was given and returned
Parsed     == call.done /\ call.resp.ok
Returned   == Parsed /\ call.raised = ""
CallPage   == call.resp.page
Elems(seq) == {seq[i] : i \in 1..Len(seq)}
Available(k)  == call.size_lists[k].available_sizes
OutOfStockOf(k) == call.size_lists[k].out_of_stock_sizes
\* the options of the page that contain the colour of record k, in page order
OptionsOfColor(k) ==
    LET Names(o) == Contains(Strip(o), call.entries[k].ItemColor)
    IN  SelectSeq(SizeOptions(CallPage), Names)

\* C1: when the run has ended, a product link whose fetch failed has no record
\* in the collection and every later product link has been requested.
C1_FailedLinkSkippedLaterLinksFetched ==
    RunEnded =>
        \A i \in MatchingTags :
            FetchFailed(ProductUrl(a_tags[i])) =>
                /\ RecordsOf(ProductUrl(a_tags[i])) = {}
                /\ \A j \in MatchingTags : j > i => Requested(ProductUrl(a_tags[j]))

\* C2: a fetched page without a compare-at element makes the call return
\* normally, and every record it returns has a null Discount.
C2_MissingOriginalPriceGivesNullDiscount ==
    (Parsed /\ CallPage.oldprice_div = None) =>
        /\ call.raised = ""
        /\ \A k \in 1..Len(call.entries) : call.entries[k].Discount = None

\* C3: a fetched page that lacks the current-price container, the size selector
\* or the description list makes the call return normally, with a null Price
\* for a missing container and empty size fields for a missing selector.  It
\* is stated for pages whose other elements (compare-at price, colour labels,
\* script) are well formed, so that only the named gaps are in play.
C3_MissingElementsDegradeToNull ==
    (/\ Parsed
     /\ CallPage.oldprice_div = Aed200
     /\ ColorException(CallPage) = ""
     /\ CallPage.json_ld.script # "nostring"
     /\ \/ CallPage.price_div = None
        \/ ~CallPage.select.present
        \/ ~CallPage.description.div) =>
        /\ call.raised = ""
        /\ \A k \in 1..Len(call.entries) :
              /\ CallPage.price_div = None => call.entries[k].Price = None
              /\ ~CallPage.select.present =>
                    /\ call.entries[k].AvailableSizes = <<>>
                    /\ call.entries[k].OutOfStockSizes = <<>>

RECURSIVE LabelCount(_)
LabelCount(k) ==
    IF k = 0 THEN 0
    ELSE Len(Available(k)) + Len(OutOfStockOf(k)) + LabelCount(k - 1)

C5_EveryOptionInExactlyOneList ==
    (Returned /\ Len(call.entries) >= 1) =>
        LabelCount(Len(call.entries)) = Len(SizeOptions(CallPage))

\* C5 as amended: in every record, the options that contain the record's
\* colour each give one label to exactly one list, in page order: the
\* available list is the labels of those options without the out-of-stock
\* marker, the out-of-stock list the labels of those with it.
C5_OptionsOfColorSplitInOrder ==
    Returned =>
        \A k \in 1..Len(call.entries) :
            LET opts   == OptionsOfColor(k)
                labels == [i \in 1..Len(opts) |->
                             SizeLabel(Strip(opts[i]), call.entries[k].ItemColor)]
                Marked(l)   == Contains(l, OutOfStock)
                Unmarked(l) == ~Contains(l, OutOfStock)
                marked == SelectSeq(labels, Marked)
            IN  /\ Available(k) = SelectSeq(labels, Unmarked)
                /\ OutOfStockOf(k) =
                      [i \in 1..Len(marked) |-> Strip(Remove(marked[i], OutOfStock))]
                /\ Len(Available(k)) + Len(OutOfStockOf(k)) = Len(opts)

C5_Witness ==
    /\ Returned
    /\ \E k \in 1..Len(call.entries) :
          /\ Len(Available(k)) = 2
          /\ Available(k)[1] # Available(k)[2]
          /\ Len(OptionsOfColor(k)) < Len(SizeOptions(CallPage))

\* C6: all records returned for a product carry the same Item Code, the one
\* resolved for the page; none keeps the placeholder while the code is resolved.
C6_ItemCodeSharedByAllRecords ==
    Returned =>
        \A j, k \in 1..Len(call.entries) :
            /\ call.entries[j].ItemCode = call.entries[k].ItemCode
            /\ call.entries[k].ItemCode = ItemCode(CallPage)

C6_Witness ==
    /\ Returned
    /\ Len(call.entries) = 2
    /\ ItemCode(CallPage) # None
    /\ call.entries[2].ItemCode # None

\* C7: a fetched page without colour labels gives exactly one record, and a
\* page with colour labels one record per label.
C7_OneRecordWhenColorless ==
    Returned =>
        Len(call.entries) = (IF CallPage.color_labels = <<>> THEN 1
                             ELSE Len(CallPage.color_labels))

\* C8 as claimed: when the category page cannot be fetched, no product page is
\* requested and the run does not complete and write a report file.
C8_CategoryFailureAbortsRun ==
    CategoryFailed =>
        /\ Len(requests) = 1
        /\ pc # "done"
        /\ FilesOfRun = {}

\* C8 as amended: when the category page cannot be fetched, the exception is
\* caught: no product page is requested, no record is collected, and the run
\* goes on to the export and ends normally with a report file without rows.
C8_CategoryFailureWritesEmptyReport ==
    CategoryFailed =>
        /\ Len(requests) = 1
        /\ all_product_data = <<>>
        /\ pc \in {"export", "done"}
        /\ pc = "done" =>
              /\ FilesOfRun # {}
              /\ \A f \in FilesOfRun : f.rows = 0

C8_Witness ==
    /\ CategoryFailed
    /\ pc = "done"
    /\ \E f \in FilesOfRun : f.rows = 0

\* C9 as claimed: any two runs of the process write files of different names.
C9_RunsNeverShareFileName ==
    \A i, j \in 1..Len(writes) : i # j => writes[i].name # writes[j].name

\* C9 as amended: two runs whose exports read the clock in different seconds
\* write files of different names, and both files are kept.
C9_DifferentSecondsDifferentFiles ==
    \A i, j \in 1..Len(writes) :
        writes[i].at # writes[j].at =>
            /\ writes[i].name # writes[j].name
            /\ \E f, g \in files : f.name = writes[i].name /\ g.name = writes[j].name

C9_Witness ==
    /\ Len(writes) = 2
    /\ writes[1].at # writes[2].at
    /\ Cardinality(files) = 2

\* C10: a fetched category page without a matching link ends the run with no
\* product page requested and a report file that has no data row and the
\* nine column headers of the records.
C10_NoLinksGivesHeadersOnly ==
    (pc = "done" /\ ~CategoryFailed /\ MatchingTags = {}) =>
        /\ Len(requests) = 1
        /\ \A f \in FilesOfRun : f.rows = 0 /\ f.columns = RecordColumns

=============================================================================
